---------------------------- MODULE Spec2Model ----------------------------
(***************************************************************************)
(* Model of mmdbmeld's record synthesis code (source.go): value coercion   *)
(* (SourceValue.ToMMDBType, toMMDBType, toMMDBArray, roundToDecimalPlaces),*)
(* nested document assembly (SourceEntry.ToMMDBMap), source loading        *)
(* (LoadSources) and the merge policy configured by merge.conditionalResets*)
(*                                                                         *)
(* Texts are sequences of one-character strings.  Unsigned 64-bit integers *)
(* are little-endian sequences of four 16-bit limbs, so that the widths    *)
(* 16, 32 and 64 and Go's wrapping arithmetic are kept exactly.            *)
(***************************************************************************)
EXTENDS Integers, Sequences, FiniteSets, TLC

VARIABLES sv, optim, coerced,
          Values, order, mapResult,
          Inputs, loadOK, loadResult, loaded,
          rules, merged, lastMerge

vars == <<sv, optim, coerced, Values, order, mapResult,
          Inputs, loadOK, loadResult, loaded, rules, merged, lastMerge>>

coerceVars == <<sv, optim, coerced>>
mapVars == <<Values, order, mapResult>>
loadVars == <<Inputs, loadOK, loadResult, loaded>>
mergeVars == <<rules, merged, lastMerge>>

(***************************************************************************)
(* Bounds.                                                                 *)
(***************************************************************************)
MaxLen == 3

(***************************************************************************)
(* Generic helpers.                                                        *)
(***************************************************************************)
RECURSIVE SeqsUpTo(_, _)
SeqsUpTo(S, n) ==
    IF n = 0 THEN {<<>>}
    ELSE LET shorter == SeqsUpTo(S, n - 1)
         IN  shorter \cup {Append(s, c) : s \in shorter, c \in S}

Nil == [kind |-> "nil"]
NoValue == [tag |-> "nil"]

Ok(v) == [val |-> v, err |-> Nil]
Fail(e) == [val |-> NoValue, err |-> e]

(***************************************************************************)
(* 64-bit unsigned arithmetic on 16-bit limbs.                             *)
(***************************************************************************)
LimbBase == 2 ^ 16
Zero64 == <<0, 0, 0, 0>>

\* a < b on uint64
Less64(a, b) ==
    \E i \in 1..4 : /\ a[i] < b[i]
                    /\ \A j \in (i + 1)..4 : a[j] = b[j]

\* n * k mod 2^64, for a small k
MulSmall64(n, k) ==
    LET t1 == n[1] * k
        t2 == n[2] * k + (t1 \div LimbBase)
        t3 == n[3] * k + (t2 \div LimbBase)
        t4 == n[4] * k + (t3 \div LimbBase)
    IN  <<t1 % LimbBase, t2 % LimbBase, t3 % LimbBase, t4 % LimbBase>>

\* n + d mod 2^64, for a small d
AddSmall64(n, d) ==
    LET t1 == n[1] + d
        t2 == n[2] + (t1 \div LimbBase)
        t3 == n[3] + (t2 \div LimbBase)
        t4 == n[4] + (t3 \div LimbBase)
    IN  <<t1 % LimbBase, t2 % LimbBase, t3 % LimbBase, t4 % LimbBase>>

\* -n mod 2^64 (two's complement)
Neg64(n) ==
    AddSmall64([i \in 1..4 |-> LimbBase - 1 - n[i]], 1)

\* uint64(1)<<bitSize - 1
MaxVal64(bitSize) ==
    [i \in 1..4 |-> IF i * 16 <= bitSize THEN LimbBase - 1 ELSE 0]

\* maxUint64/10 + 1 = 0x199999999999999A
Cutoff10 == <<39322, 39321, 39321, 6553>>

\* uint64(1 << 31), and cutoff - 1
IntCutoff32 == <<0, 32768, 0, 0>>
IntMax32 == <<65535, 32767, 0, 0>>

(***************************************************************************)
(* strconv.ParseUint(s, 10, bitSize) and strconv.ParseInt(s, 10, 32).      *)
(***************************************************************************)
Digits == <<"0", "1", "2", "3", "4", "5", "6", "7", "8", "9">>
IsDigit(c) == \E i \in 1..10 : Digits[i] = c
DigitVal(c) == (CHOOSE i \in 1..10 : Digits[i] = c) - 1

RECURSIVE ParseUintLoop(_, _, _, _)
ParseUintLoop(s, i, n, bitSize) ==
    IF i > Len(s) THEN [val |-> n, err |-> "nil"]
    ELSE IF ~IsDigit(s[i]) THEN [val |-> Zero64, err |-> "syntax"]
    ELSE IF ~Less64(n, Cutoff10)
         THEN [val |-> MaxVal64(bitSize), err |-> "range"]
    ELSE LET n10 == MulSmall64(n, 10)
             n1 == AddSmall64(n10, DigitVal(s[i]))
         IN  IF Less64(n1, n10) \/ Less64(MaxVal64(bitSize), n1)
             THEN [val |-> MaxVal64(bitSize), err |-> "range"]
             ELSE ParseUintLoop(s, i + 1, n1, bitSize)

ParseUint(s, bitSize) ==
    IF s = <<>> THEN [val |-> Zero64, err |-> "syntax"]
    ELSE ParseUintLoop(s, 1, Zero64, bitSize)

ParseInt32(s) ==
    IF s = <<>> THEN [val |-> Zero64, err |-> "syntax"]
    ELSE LET neg == s[1] = "-"
             rest == IF s[1] \in {"+", "-"} THEN Tail(s) ELSE s
             un == ParseUint(rest, 64)
         IN  IF un.err = "syntax" THEN [val |-> Zero64, err |-> "syntax"]
             ELSE IF ~neg /\ ~Less64(un.val, IntCutoff32)
                  THEN [val |-> IntMax32, err |-> "range"]
             ELSE IF neg /\ Less64(IntCutoff32, un.val)
                  THEN [val |-> Neg64(IntCutoff32), err |-> "range"]
             ELSE [val |-> IF neg THEN Neg64(un.val) ELSE un.val, err |-> "nil"]

\* Go's conversions uint16(v), uint32(v), int32(v): keep the low bits
Truncate(v, bitSize) == SubSeq(v, 1, bitSize \div 16)

(***************************************************************************)
(* strconv.ParseBool and hex.DecodeString.                                 *)
(***************************************************************************)
TrueTexts == {<<"1">>, <<"t">>, <<"T">>, <<"T", "R", "U", "E">>,
              <<"t", "r", "u", "e">>, <<"T", "r", "u", "e">>}
FalseTexts == {<<"0">>, <<"f">>, <<"F">>, <<"F", "A", "L", "S", "E">>,
               <<"f", "a", "l", "s", "e">>, <<"F", "a", "l", "s", "e">>}

ParseBool(s) ==
    IF s \in TrueTexts THEN [val |-> TRUE, err |-> "nil"]
    ELSE IF s \in FalseTexts THEN [val |-> FALSE, err |-> "nil"]
    ELSE [val |-> FALSE, err |-> "syntax"]

HexChars == <<"0", "1", "2", "3", "4", "5", "6", "7", "8", "9",
              "a", "b", "c", "d", "e", "f", "A", "B", "C", "D", "E", "F">>
IsHex(c) == \E i \in 1..22 : HexChars[i] = c
HexVal(c) == LET i == CHOOSE j \in 1..22 : HexChars[j] = c
             IN  IF i <= 16 THEN i - 1 ELSE i - 7

HexDecodeString(s) ==
    IF \E i \in 1..Len(s) : ~IsHex(s[i]) THEN [val |-> <<>>, err |-> "invalid byte"]
    ELSE IF Len(s) % 2 = 1 THEN [val |-> <<>>, err |-> "odd length"]
    ELSE [val |-> [i \in 1..(Len(s) \div 2) |->
                      16 * HexVal(s[2 * i - 1]) + HexVal(s[2 * i])],
          err |-> "nil"]

(***************************************************************************)
(* strconv.ParseFloat on plain decimal texts: an optional sign, digits     *)
(* with at most one point, at least one digit.  Exponent, hexadecimal,     *)
(* inf and nan spellings need characters that are never drawn here.  A     *)
(* float is the exact rational num / 10^exp with trailing zeros removed;   *)
(* the inputs drawn are those that binary floating point holds exactly, so *)
(* that num * shift is exact, and a quotient n / shift stands for the      *)
(* float nearest to it.                                                    *)
(***************************************************************************)
RECURSIVE DigitsToNat(_)
DigitsToNat(ds) ==
    IF ds = <<>> THEN 0
    ELSE 10 * DigitsToNat(SubSeq(ds, 1, Len(ds) - 1)) + DigitVal(ds[Len(ds)])

RECURSIVE Normalize(_, _)
Normalize(n, e) ==
    IF e > 0 /\ n % 10 = 0 THEN Normalize(n \div 10, e - 1)
    ELSE [num |-> n, exp |-> e]

ParseFloat(s) ==
    LET signed == s # <<>> /\ s[1] \in {"+", "-"}
        body == IF signed THEN Tail(s) ELSE s
        dots == {i \in 1..Len(body) : body[i] = "."}
        digs == SelectSeq(body, IsDigit)
        frac == IF dots = {} THEN 0
                ELSE Len(body) - (CHOOSE i \in dots : TRUE)
        mant == DigitsToNat(digs)
    IN  IF \/ \E i \in 1..Len(body) : ~IsDigit(body[i]) /\ body[i] # "."
           \/ Cardinality(dots) > 1
           \/ digs = <<>>
        THEN [val |-> Normalize(0, 0), err |-> "syntax"]
        ELSE [val |-> Normalize(IF signed /\ s[1] = "-" THEN -mant ELSE mant, frac),
              err |-> "nil"]

\* math.Round of the rational a / b, b > 0: nearest integer, halves away from zero
MathRound(a, b) ==
    LET abs == IF a < 0 THEN -a ELSE a
        q == (2 * abs + b) \div (2 * b)
    IN  IF a < 0 THEN -q ELSE q

\* math.RoundToEven of the rational a / b, b > 0
MathRoundToEven(a, b) ==
    LET abs == IF a < 0 THEN -a ELSE a
        lo == abs \div b
        twice == 2 * (abs - lo * b)
        q == IF twice > b \/ (twice = b /\ lo % 2 = 1) THEN lo + 1 ELSE lo
    IN  IF a < 0 THEN -q ELSE q

roundToDecimalPlaces_even(num, decimalPlaces) ==
    LET dp == IF decimalPlaces < 0 THEN 0 ELSE decimalPlaces
        shift == 10 ^ dp
    IN  Normalize(MathRoundToEven(num.num * shift, 10 ^ num.exp), dp)

roundToDecimalPlaces(num, decimalPlaces) ==
    LET dp == IF decimalPlaces < 0 THEN 0 ELSE decimalPlaces
        shift == 10 ^ dp
    IN  Normalize(MathRound(num.num * shift, 10 ^ num.exp), dp)

(***************************************************************************)
(* toMMDBType, toMMDBArray and SourceValue.ToMMDBType.  A type tag is the  *)
(* sequence of its "array:" prefixes followed by the remaining name, so    *)
(* "array:uint32" is <<"array:", "uint32">>.                               *)
(***************************************************************************)
ParseError(fn, cause) == [kind |-> "parse", fn |-> fn, cause |-> cause]
Unsupported == [kind |-> "unsupported"]

IntResult(tag, fn, p, bitSize) ==
    IF p.err # "nil" THEN Fail(ParseError(fn, p.err))
    ELSE Ok([tag |-> tag, bits |-> Truncate(p.val, bitSize)])

FloatResult(tag, p, opt) ==
    IF p.err # "nil" THEN Fail(ParseError("ParseFloat", p.err))
    ELSE Ok([tag |-> tag,
             f |-> IF opt.FloatDecimals # 0
                   THEN roundToDecimalPlaces(p.val, opt.FloatDecimals)
                   ELSE p.val])

\* case "bool"
toBool(fieldValue) ==
    LET p == ParseBool(fieldValue)
    IN  IF p.err # "nil" THEN Fail(ParseError("ParseBool", p.err))
        ELSE Ok([tag |-> "Bool", b |-> p.val])

\* case "hexbytes"
toHexbytes(fieldValue) ==
    LET p == HexDecodeString(fieldValue)
    IN  IF p.err # "nil" THEN Fail(ParseError("DecodeString", p.err))
        ELSE Ok([tag |-> "Bytes", bytes |-> p.val])

\* case "int32"
toInt32(fieldValue) ==
    IntResult("Int32", "ParseInt", ParseInt32(fieldValue), 32)

\* strconv.ParseUint(fieldValue, 10, 64) followed by uint16(v)
toUint16_wide(fieldValue) ==
    IntResult("Uint16", "ParseUint", ParseUint(fieldValue, 64), 16)

\* case "uint16"
toUint16(fieldValue) ==
    IntResult("Uint16", "ParseUint", ParseUint(fieldValue, 16), 16)

\* case "uint32"
toUint32(fieldValue) ==
    IntResult("Uint32", "ParseUint", ParseUint(fieldValue, 32), 32)

\* case "uint64"
toUint64(fieldValue) ==
    IntResult("Uint64", "ParseUint", ParseUint(fieldValue, 64), 64)

toMMDBType(fieldType, fieldValue, opt) ==
    CASE fieldType = <<"bool">> -> toBool(fieldValue)
      [] fieldType = <<"string">> -> Ok([tag |-> "String", s |-> fieldValue])
      [] fieldType = <<"hexbytes">> -> toHexbytes(fieldValue)
      [] fieldType = <<"int32">> -> toInt32(fieldValue)
      [] fieldType = <<"uint16">> -> toUint16(fieldValue)
      [] fieldType = <<"uint32">> -> toUint32(fieldValue)
      [] fieldType = <<"uint64">> -> toUint64(fieldValue)
      [] fieldType = <<"float32">> ->
           FloatResult("Float32", ParseFloat(fieldValue), opt)
      [] fieldType = <<"float64">> ->
           FloatResult("Float64", ParseFloat(fieldValue), opt)
      [] OTHER -> Fail(Unsupported)

\* strings.Fields
WhiteSpace == {" ", "\t", "\n", "\r"}

RECURSIVE FieldsLoop(_, _, _, _)
FieldsLoop(s, i, cur, acc) ==
    IF i > Len(s) THEN (IF cur = <<>> THEN acc ELSE Append(acc, cur))
    ELSE IF s[i] \in WhiteSpace
         THEN FieldsLoop(s, i + 1, <<>>, IF cur = <<>> THEN acc ELSE Append(acc, cur))
    ELSE FieldsLoop(s, i + 1, Append(cur, s[i]), acc)

Fields(s) == FieldsLoop(s, 1, <<>>, <<>>)

RECURSIVE ArrayLoop(_, _, _, _, _)
ArrayLoop(fieldType, fields, i, array, opt) ==
    IF i > Len(fields) THEN Ok([tag |-> "Slice", elems |-> array])
    ELSE LET entry == toMMDBType(fieldType, fields[i], opt)
         IN  IF entry.err # Nil
             THEN Fail([kind |-> "arrayEntry", index |-> i - 1, cause |-> entry.err])
             ELSE ArrayLoop(fieldType, fields, i + 1, Append(array, entry.val), opt)

\* strings.Split(s, " "): empty tokens are kept
RECURSIVE SplitLoop(_, _, _, _)
SplitLoop(s, i, cur, acc) ==
    IF i > Len(s) THEN Append(acc, cur)
    ELSE IF s[i] \in WhiteSpace THEN SplitLoop(s, i + 1, <<>>, Append(acc, cur))
    ELSE SplitLoop(s, i + 1, Append(cur, s[i]), acc)

toMMDBArray_split(fieldType, fieldValue, opt) ==
    ArrayLoop(fieldType, SplitLoop(fieldValue, 1, <<>>, <<>>), 1, <<>>, opt)

\* the entry number reported counts from 1
toMMDBArray_oneBased(fieldType, fieldValue, opt) ==
    LET r == ArrayLoop(fieldType, Fields(fieldValue), 1, <<>>, opt)
    IN  IF r.err = Nil THEN r
        ELSE Fail([kind |-> "arrayEntry", index |-> r.err.index + 1,
                   cause |-> r.err.cause])

toMMDBArray(fieldType, fieldValue, opt) ==
    ArrayLoop(fieldType, Fields(fieldValue), 1, <<>>, opt)

ToMMDBType(v, opt) ==
    IF v.Type # <<>> /\ Head(v.Type) = "array:"
    THEN toMMDBArray(Tail(v.Type), v.Value, opt)
    ELSE toMMDBType(v.Type, v.Value, opt)

(***************************************************************************)
(* SourceEntry.ToMMDBMap.  A mmdbtype.Map is [tag |-> "Map", entries |-> f]*)
(* with f a function from path segments to values.  Go visits the keys of  *)
(* se.Values in an unspecified order, which is the argument iter.          *)
(***************************************************************************)
EmptyMap == [tag |-> "Map", entries |-> <<>>]

\* strings.Split(s, sep) for a one-character separator
RECURSIVE SplitOn(_, _, _, _, _)
SplitOn(s, sep, i, cur, acc) ==
    IF i > Len(s) THEN Append(acc, cur)
    ELSE IF s[i] = sep THEN SplitOn(s, sep, i + 1, <<>>, Append(acc, cur))
    ELSE SplitOn(s, sep, i + 1, Append(cur, s[i]), acc)

Split(s, sep) == SplitOn(s, sep, 1, <<>>, <<>>)

Put(m, seg, v) ==
    [tag |-> "Map",
     entries |-> [k \in DOMAIN m.entries \cup {seg} |->
                     IF k = seg THEN v ELSE m.entries[k]]]

SubmapError(key, keyParts, found) ==
    [kind |-> "submap", key |-> key, submap |-> keyParts[1], found |-> found.tag]

\* every intermediate segment gets a new, empty sub-map
RECURSIVE InsertFresh(_, _, _, _, _)
InsertFresh(m, key, keyParts, i, v) ==
    IF i = Len(keyParts) THEN Ok(Put(m, keyParts[i], v))
    ELSE Ok(Put(m, keyParts[i],
                InsertFresh(EmptyMap, key, keyParts, i + 1, v).val))

SetValue_fresh(m, key, keyParts, v) == InsertFresh(m, key, keyParts, 1, v)

\* walk down keyParts[i..], creating sub-maps on demand, and set the value
RECURSIVE SetAt(_, _, _, _, _)
SetAt(m, key, keyParts, i, v) ==
    IF i = Len(keyParts) THEN Ok(Put(m, keyParts[i], v))
    ELSE IF keyParts[i] \notin DOMAIN m.entries
         THEN Ok(Put(m, keyParts[i], SetAt(EmptyMap, key, keyParts, i + 1, v).val))
    ELSE IF m.entries[keyParts[i]].tag # "Map"
         THEN Fail(SubmapError(key, keyParts, m.entries[keyParts[i]]))
    ELSE LET sub == SetAt(m.entries[keyParts[i]], key, keyParts, i + 1, v)
         IN  IF sub.err # Nil THEN sub
             ELSE Ok(Put(m, keyParts[i], sub.val))

SetValue(m, key, keyParts, v) == SetAt(m, key, keyParts, 1, v)

TransformError(key, entry, cause) ==
    [kind |-> "transform", key |-> key, value |-> entry.Value,
     type |-> entry.Type, cause |-> cause]

\* a field that fails to coerce is skipped
RECURSIVE MapLoopSkip(_, _, _, _, _)
MapLoopSkip(se, iter, i, m, opt) ==
    IF i > Len(iter) THEN Ok(m)
    ELSE LET key == iter[i]
             mmdbVal == ToMMDBType(se[key], opt)
         IN  IF mmdbVal.err # Nil THEN MapLoopSkip(se, iter, i + 1, m, opt)
             ELSE LET set == SetValue(m, key, Split(key, "."), mmdbVal.val)
                  IN  IF set.err # Nil THEN set
                      ELSE MapLoopSkip(se, iter, i + 1, set.val, opt)

ToMMDBMap_skip(se, iter, opt) == MapLoopSkip(se, iter, 1, EmptyMap, opt)

RECURSIVE MapLoop(_, _, _, _, _)
MapLoop(se, iter, i, m, opt) ==
    IF i > Len(iter) THEN Ok(m)
    ELSE LET key == iter[i]
             mmdbVal == ToMMDBType(se[key], opt)
         IN  IF mmdbVal.err # Nil
             THEN Fail(TransformError(key, se[key], mmdbVal.err))
             ELSE LET set == SetValue(m, key, Split(key, "."), mmdbVal.val)
                  IN  IF set.err # Nil THEN set
                      ELSE MapLoop(se, iter, i + 1, set.val, opt)

ToMMDBMap(se, iter, opt) == MapLoop(se, iter, 1, EmptyMap, opt)

(***************************************************************************)
(* LoadSources.  ok[i] is the outcome the loader of input i has when it is *)
(* called; calls lists the inputs whose loader was called, in call order.  *)
(***************************************************************************)
CSVSuffix == <<".", "c", "s", "v">>
IPFireSuffix == <<".", "i", "p", "f", "i", "r", "e", ".", "t", "x", "t">>

\* strings.HasSuffix
HasSuffix(s, suffix) ==
    /\ Len(s) >= Len(suffix)
    /\ SubSeq(s, Len(s) - Len(suffix) + 1, Len(s)) = suffix

\* LoadCSVSource and LoadIPFireSource, as seen by their caller
LoadSource(kind, file, loads) ==
    IF loads THEN Ok([kind |-> kind, file |-> file])
    ELSE Fail([kind |-> "load", file |-> file])

LoadOutcome(sources, err, calls) ==
    [val |-> sources, err |-> err, calls |-> calls]

\* an input with an unsupported suffix is skipped
RECURSIVE LoadLoopSkip(_, _, _, _, _)
LoadLoopSkip(inputs, ok, i, sources, calls) ==
    IF i > Len(inputs) THEN LoadOutcome(sources, Nil, calls)
    ELSE IF HasSuffix(inputs[i], CSVSuffix) \/ HasSuffix(inputs[i], IPFireSuffix)
         THEN LET s == LoadSource(IF HasSuffix(inputs[i], CSVSuffix)
                                  THEN "csv" ELSE "ipfire", inputs[i], ok[i])
              IN  IF s.err # Nil
                  THEN LoadOutcome(NoValue, [kind |-> "failed to load",
                                             file |-> inputs[i], cause |-> s.err],
                                   Append(calls, i))
                  ELSE LoadLoopSkip(inputs, ok, i + 1, Append(sources, s.val),
                                    Append(calls, i))
    ELSE LoadLoopSkip(inputs, ok, i + 1, sources, calls)

LoadSources_skip(inputs, ok) == LoadLoopSkip(inputs, ok, 1, <<>>, <<>>)

RECURSIVE LoadLoop(_, _, _, _, _)
LoadLoop(inputs, ok, i, sources, calls) ==
    IF i > Len(inputs) THEN LoadOutcome(sources, Nil, calls)
    ELSE IF HasSuffix(inputs[i], CSVSuffix)
         THEN LET s == LoadSource("csv", inputs[i], ok[i])
              IN  IF s.err # Nil
                  THEN LoadOutcome(NoValue, [kind |-> "failed to load",
                                             file |-> inputs[i], cause |-> s.err],
                                   Append(calls, i))
                  ELSE LoadLoop(inputs, ok, i + 1, Append(sources, s.val),
                                Append(calls, i))
    ELSE IF HasSuffix(inputs[i], IPFireSuffix)
         THEN LET s == LoadSource("ipfire", inputs[i], ok[i])
              IN  IF s.err # Nil
                  THEN LoadOutcome(NoValue, [kind |-> "failed to load",
                                             file |-> inputs[i], cause |-> s.err],
                                   Append(calls, i))
                  ELSE LoadLoop(inputs, ok, i + 1, Append(sources, s.val),
                                Append(calls, i))
    ELSE LoadOutcome(NoValue, [kind |-> "unsupported input file",
                               file |-> inputs[i], cause |-> Nil], calls)

LoadSources(inputs, ok) == LoadLoop(inputs, ok, 1, <<>>, <<>>)

(***************************************************************************)
(* The merge of an incoming Document into the Document a range already     *)
(* has: top-level keys of the incoming Document overwrite, then the        *)
(* conditional resets of the configuration are applied.  Documents are     *)
(* functions from top-level keys to values.                                *)
(***************************************************************************)
\* merge.conditionalResets of config-example2.yml
ExampleResets == {[ifChanged |-> {"country"}, reset |-> {"location"}]}

Changed(existing, incoming) ==
    {k \in DOMAIN incoming : k \notin DOMAIN existing \/ existing[k] # incoming[k]}

Overwrite(existing, incoming) ==
    [k \in DOMAIN existing \cup DOMAIN incoming |->
        IF k \in DOMAIN incoming THEN incoming[k] ELSE existing[k]]

\* a fired rule removes its reset keys whether or not they are resupplied
MergeDocuments_resetAll(existing, incoming, resets) ==
    LET fired == {r \in resets : r.ifChanged \cap Changed(existing, incoming) # {}}
        removed == UNION {r.reset : r \in fired}
        all == Overwrite(existing, incoming)
    IN  [k \in DOMAIN all \ removed |-> all[k]]

MergeDocuments(existing, incoming, resets) ==
    LET fired == {r \in resets : r.ifChanged \cap Changed(existing, incoming) # {}}
        removed == UNION {r.reset : r \in fired} \ DOMAIN incoming
        all == Overwrite(existing, incoming)
    IN  [k \in DOMAIN all \ removed |-> all[k]]

(***************************************************************************)
(* Coercion of one source value: the inputs are drawn in Init, Coerce      *)
(* applies SourceValue.ToMMDBType.                                         *)
(***************************************************************************)
Alphabet == {"0", "1", "2", "5", "-", ".", " "}

ScalarNames == {"bool", "string", "hexbytes", "int32", "uint16", "uint32",
                "uint64", "float32", "float64"}
IntNames == {"int32", "uint16", "uint32", "uint64"}
FloatNames == {"float32", "float64"}

TypeTags ==
    {<<t>> : t \in ScalarNames} \cup {<<"array:", t>> : t \in ScalarNames}
    \cup {<<>>, <<"foo">>, <<"array:">>, <<"array:", "foo">>,
          <<"array:", "array:", "uint32">>}

\* decimal texts around the limits of the integer types
BoundaryTexts ==
    {<<"-", "0">>, <<"+", "1">>, <<"0", "0", "7">>,
     <<"6", "5", "5", "3", "5">>, <<"6", "5", "5", "3", "6">>,
     <<"0", "6", "5", "5", "3", "5">>,
     <<"2", "1", "4", "7", "4", "8", "3", "6", "4", "7">>,
     <<"2", "1", "4", "7", "4", "8", "3", "6", "4", "8">>,
     <<"-", "2", "1", "4", "7", "4", "8", "3", "6", "4", "8">>,
     <<"-", "2", "1", "4", "7", "4", "8", "3", "6", "4", "9">>,
     <<"4", "2", "9", "4", "9", "6", "7", "2", "9", "5">>,
     <<"4", "2", "9", "4", "9", "6", "7", "2", "9", "6">>,
     <<"1", "8", "4", "4", "6", "7", "4", "4", "0", "7", "3", "7", "0", "9",
       "5", "5", "1", "6", "1", "5">>,
     <<"1", "8", "4", "4", "6", "7", "4", "4", "0", "7", "3", "7", "0", "9",
       "5", "5", "1", "6", "1", "6">>,
     <<"1", "8", "4", "4", "6", "7", "4", "4", "0", "7", "3", "7", "0", "9",
       "5", "5", "1", "6", "2", "0">>,
     <<"9", "9", "9", "9", "9", "9", "9", "9", "9", "9", "9", "9", "9", "9",
       "9", "9", "9", "9", "9", "9", "9">>,
     <<"6", "5", "5", "3", "5", " ", "6", "5", "5", "3", "6">>}

ShortTexts == SeqsUpTo(Alphabet, MaxLen)

\* configured values of optimize.floatDecimals
FloatDecimalsChoices == {-1, 0, 1, 2}

IsArrayTag(t) == t # <<>> /\ Head(t) = "array:"
SubType(t) == IF IsArrayTag(t) THEN Tail(t) ELSE t

\* the float denoted is a binary fraction, so float64 arithmetic on it is exact
ExactFloatText(s) ==
    LET p == ParseFloat(s)
    IN  p.err = "nil" => p.val.num % (5 ^ p.val.exp) = 0

Admissible(in) ==
    /\ in.Value \notin ShortTexts => SubType(in.Type) \in {<<t>> : t \in IntNames}
    /\ SubType(in.Type) \in {<<t>> : t \in FloatNames} =>
          IF IsArrayTag(in.Type)
          THEN \A i \in 1..Len(Fields(in.Value)) : ExactFloatText(Fields(in.Value)[i])
          ELSE ExactFloatText(in.Value)

CoerceInputs ==
    {in \in [Type : TypeTags, Value : ShortTexts \cup BoundaryTexts] : Admissible(in)}

Pending == [state |-> "pending"]
Done(r) == [state |-> "done", val |-> r.val, err |-> r.err]

NoEntry == [Type |-> <<>>, Value |-> <<>>]
NoOptim == [FloatDecimals |-> 0]

InitCoerce ==
    /\ sv \in CoerceInputs
    /\ optim \in [FloatDecimals : FloatDecimalsChoices]
    /\ coerced = Pending
    /\ Values = <<>> /\ order = <<>> /\ mapResult = Pending
    /\ Inputs = <<>> /\ loadOK = <<>> /\ loadResult = Pending /\ loaded = <<>>
    /\ rules = <<>> /\ merged = <<>> /\ lastMerge = Pending

Coerce ==
    /\ coerced = Pending
    /\ coerced' = Done(ToMMDBType(sv, optim))
    /\ UNCHANGED <<sv, optim, mapVars, loadVars, mergeVars>>

NextCoerce == Coerce

SpecCoerce == InitCoerce /\ [][NextCoerce]_vars

(***************************************************************************)
(* Vocabulary of the coercion claims.                                      *)
(***************************************************************************)
IsDone == coerced.state = "done"
Succeeded == IsDone /\ coerced.err.kind = "nil"
Failed == IsDone /\ coerced.err.kind # "nil"

SupportedScalar(t) == t \in {<<n>> : n \in ScalarNames}
SupportedTag(t) ==
    \/ SupportedScalar(t)
    \/ IsArrayTag(t) /\ SupportedScalar(Tail(t))

RECURSIVE RootCause(_)
RootCause(e) == IF e.kind = "arrayEntry" THEN RootCause(e.cause) ELSE e

\* the maximal runs of non-blank characters of a text, as index pairs
TokenSpans(s) ==
    {sp \in (1..Len(s)) \X (1..Len(s)) :
        /\ sp[1] <= sp[2]
        /\ \A i \in sp[1]..sp[2] : s[i] \notin WhiteSpace
        /\ sp[1] = 1 \/ s[sp[1] - 1] \in WhiteSpace
        /\ sp[2] = Len(s) \/ s[sp[2] + 1] \in WhiteSpace}

\* token number i, counting from 0
Token(s, i) ==
    LET sp == CHOOSE x \in TokenSpans(s) :
                  Cardinality({y \in TokenSpans(s) : y[1] < x[1]}) = i
    IN  SubSeq(s, sp[1], sp[2])

TokenCount(s) == Cardinality(TokenSpans(s))

TokenFails(s, i) == toMMDBType(Tail(sv.Type), Token(s, i), optim).err.kind # "nil"

FailingTokens == {i \in 0..(TokenCount(sv.Value) - 1) : TokenFails(sv.Value, i)}

\* C4: coercing with a type tag that is not supported fails with an
\* unsupported-type error for every raw text, empty text included.
C4_UnknownTagFails ==
    (IsDone /\ ~SupportedTag(sv.Type)) =>
        (Failed /\ RootCause(coerced.err).kind = "unsupported")

\* C5: an array tag with a supported subtype and N valid tokens yields an
\* array of exactly N elements, element i the coercion of token i, and the
\* empty array when N = 0.
C5_ArrayOfValidTokens ==
    (/\ IsDone
     /\ IsArrayTag(sv.Type)
     /\ SupportedScalar(Tail(sv.Type))
     /\ FailingTokens = {}) =>
        /\ Succeeded
        /\ coerced.val.tag = "Slice"
        /\ Len(coerced.val.elems) = TokenCount(sv.Value)
        /\ \A i \in 1..TokenCount(sv.Value) :
              coerced.val.elems[i] =
                  toMMDBType(Tail(sv.Type), Token(sv.Value, i - 1), optim).val

C5_Witness ==
    /\ Succeeded
    /\ sv.Type = <<"array:", "uint16">>
    /\ TokenCount(sv.Value) = 2
    /\ Len(coerced.val.elems) = 2
    /\ coerced.val.elems[1] # coerced.val.elems[2]

\* C6: when some token of an array text fails to coerce, the coercion
\* fails with the 0-based index of the first failing token and that token's
\* error as cause, and returns no array.
C6_FirstFailingToken ==
    (IsDone /\ IsArrayTag(sv.Type) /\ FailingTokens # {}) =>
        LET first == CHOOSE i \in FailingTokens : \A j \in FailingTokens : i <= j
        IN  /\ Failed
            /\ coerced.val = NoValue
            /\ coerced.err.kind = "arrayEntry"
            /\ coerced.err.index = first
            /\ coerced.err.cause =
                  toMMDBType(Tail(sv.Type), Token(sv.Value, first), optim).err

C6_Witness ==
    /\ Failed
    /\ sv.Type = <<"array:", "uint16">>
    /\ TokenCount(sv.Value) = 2
    /\ FailingTokens = {1}
    /\ coerced.err.index = 1

(***************************************************************************)
(* Decimal numerals, for the integer claim: the number a text denotes and  *)
(* the number a result holds are compared as canonical decimal numerals.   *)
(***************************************************************************)
IsDecimalText(s) ==
    /\ s # <<>>
    /\ LET body == IF s[1] = "-" THEN Tail(s) ELSE s
       IN  body # <<>> /\ \A i \in 1..Len(body) : IsDigit(body[i])

RECURSIVE StripZeros(_)
StripZeros(ds) ==
    IF Len(ds) > 1 /\ ds[1] = "0" THEN StripZeros(Tail(ds)) ELSE ds

HasMinus(s) == s[1] = "-"
Magnitude(s) == StripZeros(IF HasMinus(s) THEN Tail(s) ELSE s)

\* the canonical numeral of the number the text denotes (-0 is 0)
CanonicalText(s) ==
    IF HasMinus(s) /\ Magnitude(s) # <<"0">> THEN <<"-">> \o Magnitude(s)
    ELSE Magnitude(s)

\* a <= b for canonical unsigned numerals
NumeralLeq(a, b) ==
    \/ Len(a) < Len(b)
    \/ /\ Len(a) = Len(b)
       /\ \/ a = b
          \/ \E i \in 1..Len(a) :
                /\ DigitVal(a[i]) < DigitVal(b[i])
                /\ \A j \in 1..(i - 1) : a[j] = b[j]

MaxUint16Text == <<"6", "5", "5", "3", "5">>
MaxUint32Text == <<"4", "2", "9", "4", "9", "6", "7", "2", "9", "5">>
MaxUint64Text == <<"1", "8", "4", "4", "6", "7", "4", "4", "0", "7", "3", "7",
                   "0", "9", "5", "5", "1", "6", "1", "5">>
MaxInt32Text == <<"2", "1", "4", "7", "4", "8", "3", "6", "4", "7">>
MinInt32Magnitude == <<"2", "1", "4", "7", "4", "8", "3", "6", "4", "8">>

\* the number lies within the range of the type; for an unsigned tag a text
\* that carries a minus sign counts as negative
InRange(name, s) ==
    CASE name = "uint16" -> ~HasMinus(s) /\ NumeralLeq(Magnitude(s), MaxUint16Text)
      [] name = "uint32" -> ~HasMinus(s) /\ NumeralLeq(Magnitude(s), MaxUint32Text)
      [] name = "uint64" -> ~HasMinus(s) /\ NumeralLeq(Magnitude(s), MaxUint64Text)
      [] name = "int32" ->
           IF HasMinus(s) THEN NumeralLeq(Magnitude(s), MinInt32Magnitude)
           ELSE NumeralLeq(Magnitude(s), MaxInt32Text)

\* remainder of the limbs i..Len(n) of n, divided by 10
RECURSIVE RemAt(_, _)
RemAt(n, i) ==
    IF i > Len(n) THEN 0 ELSE (RemAt(n, i + 1) * LimbBase + n[i]) % 10

Quot10(n) == [i \in 1..Len(n) |-> (RemAt(n, i + 1) * LimbBase + n[i]) \div 10]

RECURSIVE ToDecimalLoop(_)
ToDecimalLoop(n) ==
    IF \A i \in 1..Len(n) : n[i] = 0 THEN <<>>
    ELSE Append(ToDecimalLoop(Quot10(n)), Digits[RemAt(n, 1) + 1])

ToDecimal(n) == IF ToDecimalLoop(n) = <<>> THEN <<"0">> ELSE ToDecimalLoop(n)

\* the numeral of the number an integer result holds
ValueText(v) ==
    IF v.tag = "Int32" /\ v.bits[2] >= 32768
    THEN LET t1 == (LimbBase - 1 - v.bits[1]) + 1
             t2 == (LimbBase - 1 - v.bits[2]) + (t1 \div LimbBase)
         IN  <<"-">> \o ToDecimal(<<t1 % LimbBase, t2 % LimbBase, t2 \div LimbBase>>)
    ELSE ToDecimal(v.bits)

Abs(x) == IF x < 0 THEN -x ELSE x
Max(a, b) == IF a > b THEN a ELSE b

IsFloatCase ==
    /\ Succeeded
    /\ sv.Type \in {<<n>> : n \in FloatNames}

Parsed == ParseFloat(sv.Value).val
Scale(p) == Max(Max(Parsed.exp, coerced.val.f.exp), p)
ParsedAt(p) == Parsed.num * 10 ^ (Scale(p) - Parsed.exp)
ResultAt(p) == coerced.val.f.num * 10 ^ (Scale(p) - coerced.val.f.exp)
Step(p) == 10 ^ (Scale(p) - p)

IsMultiple(p) == ResultAt(p) % Step(p) = 0
IsNearest(p) == 2 * Abs(ResultAt(p) - ParsedAt(p)) <= Step(p)
IsTie(p) == 2 * Abs(ResultAt(p) - ParsedAt(p)) = Step(p)
TieToEven(p) == IsTie(p) => (ResultAt(p) \div Step(p)) % 2 = 0
TieAwayFromZero(p) == IsTie(p) => Abs(ResultAt(p)) > Abs(ParsedAt(p))

\* C8 as stated: precision 0 leaves the value unrounded, p > 0 rounds to a
\* multiple of 10^-p with ties to the even neighbour, negative precision
\* rounds to the nearest integer.
C8_RoundHalfToEven ==
    IsFloatCase =>
        LET p == optim.FloatDecimals
        IN  /\ p = 0 => coerced.val.f = Parsed
            /\ p > 0 => IsMultiple(p) /\ IsNearest(p) /\ TieToEven(p)
            /\ p < 0 => IsMultiple(0) /\ IsNearest(0)

\* C8 amended: as above, but a tie goes to the neighbour away from zero
\* (math.Round), for p > 0 and for negative precision alike.
C8_RoundHalfAwayFromZero ==
    IsFloatCase =>
        LET p == optim.FloatDecimals
        IN  /\ p = 0 => coerced.val.f = Parsed
            /\ p > 0 => IsMultiple(p) /\ IsNearest(p) /\ TieAwayFromZero(p)
            /\ p < 0 => IsMultiple(0) /\ IsNearest(0) /\ TieAwayFromZero(0)

C8_Witness ==
    /\ IsFloatCase
    /\ optim.FloatDecimals > 0
    /\ IsTie(optim.FloatDecimals)
    /\ coerced.val.f # Parsed

(***************************************************************************)
(* Assembly of one source entry: the flat mapping is drawn in Init,        *)
(* Assemble applies SourceEntry.ToMMDBMap under some iteration order.      *)
(***************************************************************************)
MaxKeys == 3

\* the dotted keys "a", "b", "a.b", "a.c", "a.b.c", "a." and ""
EntryKeys ==
    {<<"a">>, <<"b">>, <<"a", ".", "b">>, <<"a", ".", "c">>,
     <<"a", ".", "b", ".", "c">>, <<"a", ".">>, <<>>}

EntryValues ==
    {[Type |-> <<"string">>, Value |-> <<"x">>],
     [Type |-> <<"uint16">>, Value |-> <<"1">>],
     [Type |-> <<"uint16">>, Value |-> <<"x">>]}

\* floatDecimals of config-example2.yml
ExampleOptim == [FloatDecimals |-> 2]

Orders(keys) ==
    {o \in [1..Cardinality(keys) -> keys] :
        \A i, j \in 1..Cardinality(keys) : o[i] = o[j] => i = j}

InitMap ==
    /\ \E keys \in SUBSET EntryKeys :
          /\ Cardinality(keys) <= MaxKeys
          /\ Values \in [keys -> EntryValues]
    /\ optim = ExampleOptim
    /\ order = <<>>
    /\ mapResult = Pending
    /\ sv = NoEntry /\ coerced = Pending
    /\ Inputs = <<>> /\ loadOK = <<>> /\ loadResult = Pending /\ loaded = <<>>
    /\ rules = <<>> /\ merged = <<>> /\ lastMerge = Pending

Assemble ==
    /\ mapResult = Pending
    /\ \E iter \in Orders(DOMAIN Values) :
          /\ order' = iter
          /\ mapResult' = Done(ToMMDBMap(Values, iter, optim))
    /\ UNCHANGED <<Values, sv, optim, coerced, loadVars, mergeVars>>

NextMap == Assemble

SpecMap == InitMap /\ [][NextMap]_vars

(***************************************************************************)
(* Vocabulary of the assembly claims.                                      *)
(***************************************************************************)
MapDone == mapResult.state = "done"

IsProperPrefix(a, b) == Len(a) < Len(b) /\ SubSeq(b, 1, Len(a)) = a

\* one key is a proper dotted prefix of another
Conflicting ==
    \E k1, k2 \in DOMAIN Values :
        IsProperPrefix(Split(k1, "."), Split(k2, "."))

CoercedValue(k) == ToMMDBType(Values[k], optim)
FailingKeys == {k \in DOMAIN Values : CoercedValue(k).err.kind # "nil"}

Position(k) == CHOOSE i \in 1..Len(order) : order[i] = k

\* the leaves of a document, each with its path of segments
RECURSIVE Leaves(_)
Leaves(m) ==
    UNION {IF m.entries[k].tag = "Map"
           THEN {<<(<<k>> \o l[1]), l[2]>> : l \in Leaves(m.entries[k])}
           ELSE {<<(<<k>>), m.entries[k]>>} : k \in DOMAIN m.entries}

RECURSIVE NoEmptySubmap(_)
NoEmptySubmap(m) ==
    \A k \in DOMAIN m.entries :
        m.entries[k].tag = "Map" =>
            /\ DOMAIN m.entries[k].entries # {}
            /\ NoEmptySubmap(m.entries[k])

\* C1: a flat mapping whose keys conflict in shape and whose values all
\* coerce fails with a conflicting-shape error under every iteration order
\* and never yields a Document.
C1_ConflictFailsInEveryOrder ==
    (MapDone /\ Conflicting /\ FailingKeys = {}) =>
        /\ mapResult.err.kind = "submap"
        /\ mapResult.val = NoValue

\* C2: a flat mapping whose keys do not conflict and whose values all
\* coerce yields, under every iteration order, the one Document in which
\* each key split on '.' leads to the coerced value of that key, with no
\* other leaves.
C2_DocumentIndependentOfOrder ==
    (MapDone /\ ~Conflicting /\ FailingKeys = {}) =>
        /\ mapResult.err.kind = "nil"
        /\ mapResult.val.tag = "Map"
        /\ Leaves(mapResult.val) =
              {<<Split(k, "."), CoercedValue(k).val>> : k \in DOMAIN Values}
        /\ NoEmptySubmap(mapResult.val)

C2_Witness ==
    /\ MapDone
    /\ DOMAIN Values = {<<"a", ".", "b">>, <<"a", ".", "c">>, <<"b">>}
    /\ order[1] = <<"a", ".", "c">>
    /\ mapResult.err.kind = "nil"
    /\ DOMAIN mapResult.val.entries = {<<"a">>, <<"b">>}
    /\ DOMAIN mapResult.val.entries[<<"a">>].entries = {<<"b">>, <<"c">>}

MaxInputs == 3

\* "a.csv", "b.csv", "c.ipfire.txt", "d.txt", "csv" and "e.csv.bak"
FileNames ==
    {<<"a">> \o CSVSuffix, <<"b">> \o CSVSuffix, <<"c">> \o IPFireSuffix,
     <<"d", ".", "t", "x", "t">>, <<"c", "s", "v">>,
     <<"e">> \o CSVSuffix \o <<".", "b", "a", "k">>}

InitLoad ==
    /\ \E n \in 0..MaxInputs :
          /\ Inputs \in [1..n -> FileNames]
          /\ loadOK \in [1..n -> BOOLEAN]
    /\ loadResult = Pending
    /\ loaded = <<>>
    /\ sv = NoEntry /\ optim = NoOptim /\ coerced = Pending
    /\ Values = <<>> /\ order = <<>> /\ mapResult = Pending
    /\ rules = <<>> /\ merged = <<>> /\ lastMerge = Pending

Load ==
    /\ loadResult = Pending
    /\ LET r == LoadSources(Inputs, loadOK)
       IN  /\ loadResult' = Done(r)
           /\ loaded' = r.calls
    /\ UNCHANGED <<Inputs, loadOK, coerceVars, mapVars, mergeVars>>

NextLoad == Load

SpecLoad == InitLoad /\ [][NextLoad]_vars

LoadDone == loadResult.state = "done"

EndsWith(name, suffix) ==
    \E n \in 0..Len(name) : SubSeq(name, n + 1, Len(name)) = suffix

SupportedInput(i) == EndsWith(Inputs[i], CSVSuffix) \/ EndsWith(Inputs[i], IPFireSuffix)
BadInputs == {i \in 1..Len(Inputs) : ~SupportedInput(i) \/ ~loadOK[i]}

\* C10: when every input has a supported suffix and every loader succeeds,
\* LoadSources returns one Source per input, the i-th loaded from the i-th
\* input; otherwise it returns an error naming the first failing file and
\* no Source list, and no input after that file is loaded.
C10_AllOrNothingInOrder ==
    LoadDone =>
        IF BadInputs = {}
        THEN /\ loadResult.err.kind = "nil"
             /\ Len(loadResult.val) = Len(Inputs)
             /\ \A i \in 1..Len(Inputs) : loadResult.val[i].file = Inputs[i]
             /\ loaded = [i \in 1..Len(Inputs) |-> i]
        ELSE LET bad == CHOOSE i \in BadInputs : \A j \in BadInputs : i <= j
             IN  /\ loadResult.val = NoValue
                 /\ loadResult.err.kind # "nil"
                 /\ loadResult.err.file = Inputs[bad]
                 /\ \A n \in 1..Len(loaded) : loaded[n] <= bad
                 /\ \A i \in 1..(bad - 1) : \E n \in 1..Len(loaded) : loaded[n] = i

C10_Witness ==
    /\ LoadDone
    /\ Len(Inputs) = 3
    /\ BadInputs = {2, 3}
    /\ SupportedInput(2)
    /\ loadResult.val = NoValue
    /\ loaded = <<1, 2>>

(***************************************************************************)
(* Merging: Insert merges an incoming Document for a range into the        *)
(* entries merged so far.                                                  *)
(***************************************************************************)
Ranges == {"10.0.0.0/24", "10.0.1.0/24"}
TopLevelKeys == {"country", "location", "asn"}
GroupValues(k) ==
    CASE k = "country" -> {"US", "CA"}
      [] k = "location" -> {"L1", "L2"}
      [] k = "asn" -> {"A1"}

Documents ==
    UNION {{d \in [keys -> {"US", "CA", "L1", "L2", "A1"}] :
               \A k \in keys : d[k] \in GroupValues(k)} :
           keys \in SUBSET TopLevelKeys}

ResetChoices ==
    {ExampleResets,
     {[ifChanged |-> {"country", "asn"}, reset |-> {"location", "asn"}]},
     ExampleResets \cup {[ifChanged |-> {"location"}, reset |-> {"asn"}]}}

InitMerge ==
    /\ rules \in ResetChoices
    /\ merged = <<>>
    /\ lastMerge = Pending
    /\ sv = NoEntry /\ optim = NoOptim /\ coerced = Pending
    /\ Values = <<>> /\ order = <<>> /\ mapResult = Pending
    /\ Inputs = <<>> /\ loadOK = <<>> /\ loadResult = Pending /\ loaded = <<>>

Insert ==
    /\ \E range \in Ranges, incoming \in Documents :
          LET had == range \in DOMAIN merged
              existing == IF had THEN merged[range] ELSE <<>>
              result == IF had THEN MergeDocuments(existing, incoming, rules)
                        ELSE incoming
          IN  /\ merged' = [r \in DOMAIN merged \cup {range} |->
                               IF r = range THEN result ELSE merged[r]]
              /\ lastMerge' = [state |-> "done", range |-> range, had |-> had,
                               existing |-> existing, incoming |-> incoming]
    /\ UNCHANGED <<rules, coerceVars, mapVars, loadVars>>

NextMerge == Insert

SpecMerge == InitMerge /\ [][NextMerge]_vars

\* C3: when the incoming Document for a range that already has an entry
\* changes a key that a rule watches, each reset key of that rule is in the
\* merged Document exactly if the incoming Document supplies it, and then
\* with the incoming value.
C3_ResetUnlessResupplied ==
    (lastMerge.state = "done" /\ lastMerge.had) =>
        \A rule \in rules :
            (\E w \in rule.ifChanged \cap DOMAIN lastMerge.incoming :
                 \/ w \notin DOMAIN lastMerge.existing
                 \/ lastMerge.existing[w] # lastMerge.incoming[w]) =>
                \A k \in rule.reset :
                    /\ k \in DOMAIN merged[lastMerge.range]
                          <=> k \in DOMAIN lastMerge.incoming
                    /\ k \in DOMAIN lastMerge.incoming =>
                          merged[lastMerge.range][k] = lastMerge.incoming[k]

C3_Witness ==
    /\ lastMerge.state = "done"
    /\ lastMerge.had
    /\ rules = ExampleResets
    /\ DOMAIN lastMerge.existing = {"country", "location"}
    /\ DOMAIN lastMerge.incoming = {"country"}
    /\ lastMerge.existing["country"] # lastMerge.incoming["country"]
    /\ DOMAIN merged[lastMerge.range] = {"country"}

=============================================================================
